---- MODULE Spec2Model ----
\* The kernel composite resolver of blazesym (src/kernel.rs) and the
\* symbolization entry point that uses it (src/symbolize).
\*
\* KernelResolver combines an optional kallsyms table resolver, held through
\* an Rc handle, with an optional ELF resolver of the kernel image, held by
\* value.  The two child resolvers and Symbolizer::symbolize live in files
\* outside src/ (ksym.rs, elf/, symbolize/symbolizer.rs); they are modelled
\* from the design document.
EXTENDS Integers, Sequences, FiniteSets, TLC

VARIABLES
    opened,      \* child resolver instances constructed so far
    caller_rc,   \* per table instance: Rc handles held outside any composite
    caller_elf,  \* ELF resolver values owned outside any composite
    resolvers,   \* per slot: None, or Some(the KernelResolver living there)
    built,       \* per slot: the value KernelResolver::new returned (history)
    last         \* the most recent completed call and what it returned

vars == <<opened, caller_rc, caller_elf, resolvers, built, last>>

\* ---------------------------------------------------------------- bounds
MaxAddr == 2
MaxBatch == 2
MaxRc == 2

Addr == 0..MaxAddr
Slots == {1, 2}

\* --------------------------------------------- Option, Result and strings
None == <<>>
Some(x) == <<x>>
Ok(v) == [ok |-> v]
Err(e) == [err |-> e]
IsOk(r) == "ok" \in DOMAIN r
IsErr(r) == "err" \in DOMAIN r
\* The payload of the panic raised by Option::unwrap on None.  The message
\* has a grave accent (character 96) around Option::unwrap() and None, which
\* a string literal cannot hold: the message is the concatenation of the
\* pieces below, 96 standing for that character.
Panic ==
    [panic |-> <<"called ", 96, "Option::unwrap()", 96, " on a ", 96, "None", 96,
                 " value">>]
IsPanic(r) == "panic" \in DOMAIN r

\* io::Error::new(ErrorKind::NotFound, "failed to create kernel resolver: ...")
NotFound ==
    [kind |-> "NotFound",
     msg |-> "failed to create kernel resolver: neither ksym resolver nor kernel image ELF resolver are present"]

\* Strings that get formatted are sequences of characters.
KernelResolverLit ==
    <<"K", "e", "r", "n", "e", "l", "R", "e", "s", "o", "l", "v", "e", "r">>
Space == <<" ">>

\* ------------------------------------------------ the child resolvers
\* Two table resolver instances and two ELF resolver instances.  K2 and E2
\* sit on a backing store that cannot be read: every query on them fails.
KSymIds == {"K1", "K2"}
ElfIds == {"E1", "E2"}

KSymFileName(k) ==
    IF k = "K1" THEN <<"/", "k", "1">> ELSE <<"/", "k", "2">>

\* Entries of the flat table, sorted by start address.
KSymTable(k) ==
    IF k = "K1"
    THEN <<[name |-> "do_sys_open", addr |-> 1], [name |-> "vfs_read", addr |-> 2]>>
    ELSE <<>>

KSymBroken(k) == k = "K2"

KSymError == [kind |-> "PermissionDenied", msg |-> "kallsyms unreadable"]

\* The table tracks symbol start addresses only: the answer is the nearest
\* symbol starting at or below addr, or nothing.
KSymFindSyms(k, addr) ==
    IF KSymBroken(k) THEN Err(KSymError)
    ELSE LET tbl == KSymTable(k)
             hits == {i \in 1..Len(tbl) : tbl[i].addr <= addr}
         IN  IF hits = {} THEN Ok(<<>>)
             ELSE LET i == CHOOSE j \in hits : \A h \in hits : h <= j
                  IN  Ok(<< <<tbl[i].name, tbl[i].addr>> >>)

ElfFileName(e) ==
    IF e = "E1" THEN <<"/", "v", "1">> ELSE <<"/", "v", "2">>

\* Symbols of the image with their ranges [addr, addr + size).
ElfSymbols(e) ==
    IF e = "E1"
    THEN <<[name |-> "_stext", addr |-> 0, size |-> 1],
           [name |-> "do_sys_open", addr |-> 1, size |-> 2],
           [name |-> "open_inl", addr |-> 2, size |-> 1]>>
    ELSE <<>>

\* Debug line records of the image.
ElfLines(e) ==
    IF e = "E1"
    THEN {[addr |-> 2, info |-> [path |-> "fs/open.c", line |-> 42, column |-> 3]]}
    ELSE {}

ElfBroken(e) == e = "E2"

ElfError == [kind |-> "UnexpectedEof", msg |-> "kernel image unreadable"]

ElfFindSyms(e, addr) ==
    IF ElfBroken(e) THEN Err(ElfError)
    ELSE LET cover == SelectSeq(ElfSymbols(e),
                          LAMBDA s : s.addr <= addr /\ addr < s.addr + s.size)
         IN  Ok([i \in 1..Len(cover) |-> <<cover[i].name, cover[i].addr>>])

ElfFindLineInfo(e, addr) ==
    IF ElfBroken(e) THEN Err(ElfError)
    ELSE LET recs == {r \in ElfLines(e) : r.addr = addr}
         IN  IF recs = {} THEN Ok(None)
             ELSE Ok(Some((CHOOSE r \in recs : TRUE).info))

\* One entry of a call's log of child queries.
ChildCall(child, op, addr) ==
    [child |-> child, op |-> op, addr |-> addr]

\* ------------------------------------------------------ KernelResolver
\* Option::as_ref on a field of &self: the value read, and what the field
\* holds afterwards.
as_ref(opt) == [val |-> opt, left |-> opt]

KernelResolver(ksym_resolver, elf_resolver) ==
    [ksym_resolver |-> ksym_resolver, elf_resolver |-> elf_resolver]

\* A constructor that skips the presence check.
new_unchecked(ksym_resolver, elf_resolver) ==
    Ok(KernelResolver(ksym_resolver, elf_resolver))

\* A constructor that rejects a configuration with one child missing.
new_strict(ksym_resolver, elf_resolver) ==
    IF ksym_resolver = None \/ elf_resolver = None
    THEN Err(NotFound)
    ELSE Ok(KernelResolver(ksym_resolver, elf_resolver))

\* KernelResolver::new
new(ksym_resolver, elf_resolver) ==
    IF ksym_resolver = None /\ elf_resolver = None
    THEN Err(NotFound)
    ELSE Ok(KernelResolver(ksym_resolver, elf_resolver))

\* Which child answers find_syms, ELF first.
find_syms_select_elf_first(self) ==
    LET e == as_ref(self.elf_resolver) IN
    IF e.val # None
    THEN [to |-> "elf", id |-> e.val[1],
          self |-> [self EXCEPT !.elf_resolver = e.left]]
    ELSE LET k == as_ref(self.ksym_resolver) IN
         [to |-> IF k.val = None THEN "panic" ELSE "ksym",
          id |-> IF k.val = None THEN "" ELSE k.val[1],
          self |-> [self EXCEPT !.ksym_resolver = k.left, !.elf_resolver = e.left]]

\* find_syms, first half: which child answers.  The table resolver when it
\* is present, else the unwrapped ELF resolver.
find_syms_select(self) ==
    LET k == as_ref(self.ksym_resolver) IN
    IF k.val # None
    THEN [to |-> "ksym", id |-> k.val[1],
          self |-> [self EXCEPT !.ksym_resolver = k.left]]
    ELSE LET e == as_ref(self.elf_resolver) IN
         [to |-> IF e.val = None THEN "panic" ELSE "elf",
          id |-> IF e.val = None THEN "" ELSE e.val[1],
          self |-> [self EXCEPT !.ksym_resolver = k.left, !.elf_resolver = e.left]]

\* A delegation that turns a child's error into "no symbols".
find_syms_delegate_lossy(sel, addr) ==
    LET r == IF sel.to = "ksym" THEN KSymFindSyms(sel.id, addr)
             ELSE IF sel.to = "elf" THEN ElfFindSyms(sel.id, addr)
             ELSE Panic
    IN  IF IsErr(r) THEN Ok(<<>>) ELSE r

\* find_syms, second half: the selected child's answer, returned as it is.
find_syms_delegate(sel, addr) ==
    IF sel.to = "ksym" THEN KSymFindSyms(sel.id, addr)
    ELSE IF sel.to = "elf" THEN ElfFindSyms(sel.id, addr)
    ELSE Panic

\* KernelResolver::find_syms
find_syms(self, addr) ==
    LET sel == find_syms_select(self)
        ret == find_syms_delegate(sel, addr)
    IN  [ret |-> ret, self |-> sel.self,
         calls |-> IF sel.to = "panic" THEN <<>>
                   ELSE <<ChildCall(sel.id, "find_syms", addr)>>]

\* A find_addr that reports the missing feature as an error.
find_addr_unsupported(self, name, opts) ==
    [ret |-> Err([kind |-> "Unsupported", msg |-> "find_addr"]),
     self |-> self, calls |-> <<>>]

\* KernelResolver::find_addr
find_addr(self, name, opts) ==
    [ret |-> Ok(<<>>), self |-> self, calls |-> <<>>]

\* find_line_info, first half: the ELF resolver when it is present.
find_line_info_select(self) ==
    LET e == as_ref(self.elf_resolver) IN
    [to |-> IF e.val = None THEN "none" ELSE "elf",
     id |-> IF e.val = None THEN "" ELSE e.val[1],
     self |-> [self EXCEPT !.elf_resolver = e.left]]

\* A delegation that fails when there is no ELF resolver.
find_line_info_delegate_failing(sel, addr) ==
    IF sel.to = "elf" THEN ElfFindLineInfo(sel.id, addr)
    ELSE Err(NotFound)

\* find_line_info, second half: the ELF resolver's answer as it is, or
\* Ok(None) without one.
find_line_info_delegate(sel, addr) ==
    IF sel.to = "elf" THEN ElfFindLineInfo(sel.id, addr)
    ELSE Ok(None)

\* KernelResolver::find_line_info
find_line_info(self, addr) ==
    LET sel == find_line_info_select(self)
        ret == find_line_info_delegate(sel, addr)
    IN  [ret |-> ret, self |-> sel.self,
         calls |-> IF sel.to = "elf"
                   THEN <<ChildCall(sel.id, "find_line_info", addr)>>
                   ELSE <<>>]

\* KernelResolver::addr_file_off
addr_file_off(self, addr) ==
    [ret |-> None, self |-> self, calls |-> <<>>]

\* The file name a Debug position shows: the child's, or Path::new("").
ksym_display(opt) == IF opt = None THEN <<>> ELSE KSymFileName(opt[1])
elf_display(opt) == IF opt = None THEN <<>> ELSE ElfFileName(opt[1])

\* A Debug output with the two names in the other order.
fmt_swapped(self) ==
    LET k == as_ref(self.ksym_resolver)
        e == as_ref(self.elf_resolver)
    IN  [ret |-> KernelResolverLit \o Space \o elf_display(e.val)
                    \o Space \o ksym_display(k.val),
         self |-> [self EXCEPT !.ksym_resolver = k.left, !.elf_resolver = e.left],
         calls |-> <<>>]

\* <KernelResolver as Debug>::fmt: write!(f, "KernelResolver {} {}", ..)
fmt(self) ==
    LET k == as_ref(self.ksym_resolver)
        e == as_ref(self.elf_resolver)
    IN  [ret |-> KernelResolverLit \o Space \o ksym_display(k.val)
                    \o Space \o elf_display(e.val),
         self |-> [self EXCEPT !.ksym_resolver = k.left, !.elf_resolver = e.left],
         calls |-> <<>>]

\* ------------------------------------------- Source and symbolization
\* symbolize::Kernel: two optional paths.
Kernel(kallsyms, kernel_image) ==
    [kallsyms |-> kallsyms, kernel_image |-> kernel_image]

\* A path at which no file exists.
MissingPath == <<"/", "x">>

\* The table location used when Kernel.kallsyms is None.
DefaultKallsyms == KSymFileName("K1")

KallsymsPaths == {KSymFileName(k) : k \in KSymIds} \cup {MissingPath}
ImagePaths == {ElfFileName(e) : e \in ElfIds} \cup {MissingPath}

\* The Kernel sources a caller can describe.
KernelSources ==
    {Kernel(k, i) : k \in {None} \cup {Some(p) : p \in KallsymsPaths},
                    i \in {None} \cup {Some(p) : p \in ImagePaths}}

\* The table resolver for a Kernel source: the one backed by the given (or
\* the default) path, absent when nothing is there.
KSymOpen(kallsyms) ==
    LET path == IF kallsyms = None THEN DefaultKallsyms ELSE kallsyms[1]
        found == {k \in KSymIds : KSymFileName(k) = path}
    IN  IF found = {} THEN None ELSE Some(CHOOSE k \in found : TRUE)

\* The ELF resolver for a Kernel source: the one backed by the given image,
\* absent when no image is given (none is discovered) or nothing is there.
ElfOpen(kernel_image) ==
    LET found == IF kernel_image = None THEN {}
                 ELSE {e \in ElfIds : ElfFileName(e) = kernel_image[1]}
    IN  IF found = {} THEN None ELSE Some(CHOOSE e \in found : TRUE)

\* symbolize::SymbolizedResult for one matched symbol.
SymbolizedResult(sym, linfo) ==
    [symbol |-> sym[1], addr |-> sym[2],
     path |-> IF linfo = None THEN "" ELSE linfo[1].path,
     line |-> IF linfo = None THEN 0 ELSE linfo[1].line,
     column |-> IF linfo = None THEN 0 ELSE linfo[1].column]

\* The results for one address: every matched symbol, with the line info of
\* the address attached when there is any.  An error of either query is the
\* result.
symbolize_with_resolver(resolver, addr) ==
    LET syms == find_syms(resolver, addr).ret IN
    IF ~IsOk(syms) THEN syms
    ELSE IF syms.ok = <<>> THEN Ok(<<>>)
    ELSE LET linfo == find_line_info(resolver, addr).ret IN
         IF ~IsOk(linfo) THEN linfo
         ELSE Ok([i \in 1..Len(syms.ok) |-> SymbolizedResult(syms.ok[i], linfo.ok)])

\* A symbolization that leaves out the addresses without a match.
symbolize_skip_empty(src, addrs) ==
    LET made == new(KSymOpen(src.kallsyms), ElfOpen(src.kernel_image)) IN
    IF ~IsOk(made) THEN made
    ELSE LET per == [i \in 1..Len(addrs) |-> symbolize_with_resolver(made.ok, addrs[i])]
             bad == {i \in 1..Len(addrs) : ~IsOk(per[i])}
             all == [i \in 1..Len(addrs) |-> IF i \in bad THEN <<>> ELSE per[i].ok]
         IN  IF bad # {} THEN per[CHOOSE i \in bad : \A j \in bad : i <= j]
             ELSE Ok(SelectSeq(all, LAMBDA x : x # <<>>))

\* Symbolizer::symbolize on a Kernel source: the resolver is built once, each
\* address is resolved on its own in input order, and the first failure
\* fails the whole call.
symbolize(src, addrs) ==
    LET made == new(KSymOpen(src.kallsyms), ElfOpen(src.kernel_image)) IN
    IF ~IsOk(made) THEN made
    ELSE LET per == [i \in 1..Len(addrs) |-> symbolize_with_resolver(made.ok, addrs[i])]
             bad == {i \in 1..Len(addrs) : ~IsOk(per[i])}
         IN  IF bad # {} THEN per[CHOOSE i \in bad : \A j \in bad : i <= j]
             ELSE Ok([i \in 1..Len(addrs) |-> per[i].ok])

\* The address batches a caller passes: every sequence up to MaxBatch long.
Batches == UNION {[1..n -> Addr] : n \in 0..MaxBatch}

\* ----------------------------------------------------------- ownership
\* Passing a value while keeping it (what a shared handle would allow).
lend(owned, x) == owned

\* Passing an ElfResolver by value: the giver no longer has it.
give(owned, x) == owned \ x

\* The composites that hold table instance k / ELF instance e.
KSymHolders(k) ==
    {s \in Slots : resolvers[s] # None /\ resolvers[s][1].ksym_resolver = Some(k)}
ElfHolders(e) ==
    {s \in Slots : resolvers[s] # None /\ resolvers[s][1].elf_resolver = Some(e)}

\* Rc::strong_count of table instance k.
StrongCount(k) == caller_rc[k] + Cardinality(KSymHolders(k))

\* --------------------------------------------------------------- state
NoCall ==
    [op |-> "none", self |-> 0, addr |-> 0, arg |-> <<>>, ret |-> Ok(<<>>),
     calls |-> <<>>]

Completed(op, self, addr, arg, out) ==
    [op |-> op, self |-> self, addr |-> addr, arg |-> arg, ret |-> out.ret,
     calls |-> out.calls]

Init ==
    /\ opened = {}
    /\ caller_rc = [k \in KSymIds |-> 0]
    /\ caller_elf = {}
    /\ resolvers = [s \in Slots |-> None]
    /\ built = [s \in Slots |-> None]
    /\ last = NoCall

\* ------------------------------------------------------------- actions
\* A table resolver is constructed and wrapped in an Rc.
OpenKSym(k) ==
    /\ k \notin opened
    /\ opened' = opened \cup {k}
    /\ caller_rc' = [caller_rc EXCEPT ![k] = 1]
    /\ UNCHANGED <<caller_elf, resolvers, built, last>>

\* An ELF resolver is constructed.
OpenElf(e) ==
    /\ e \notin opened
    /\ opened' = opened \cup {e}
    /\ caller_elf' = caller_elf \cup {e}
    /\ UNCHANGED <<caller_rc, resolvers, built, last>>

\* Rc::clone of a handle held outside the composites.
CloneRc(k) ==
    /\ caller_rc[k] > 0
    /\ StrongCount(k) < MaxRc
    /\ caller_rc' = [caller_rc EXCEPT ![k] = @ + 1]
    /\ UNCHANGED <<opened, caller_elf, resolvers, built, last>>

\* KernelResolver::new(k, e) into the free slot s.  The Rc handle and the
\* ELF resolver passed are moved into the call.
New(s, k, e) ==
    /\ resolvers[s] = None
    /\ IF k = None THEN TRUE ELSE caller_rc[k[1]] > 0
    /\ IF e = None THEN TRUE ELSE e[1] \in caller_elf
    /\ LET out == new(k, e) IN
       /\ resolvers' = [resolvers EXCEPT ![s] = IF IsOk(out) THEN Some(out.ok) ELSE None]
       /\ built' = [built EXCEPT ![s] = IF IsOk(out) THEN Some(out.ok) ELSE None]
       /\ last' = [op |-> "new", self |-> s, addr |-> 0, arg |-> <<k, e>>,
                   ret |-> out, calls |-> <<>>]
    /\ caller_rc' = IF k = None THEN caller_rc
                    ELSE [caller_rc EXCEPT ![k[1]] = @ - 1]
    /\ caller_elf' = IF e = None THEN caller_elf ELSE give(caller_elf, {e[1]})
    /\ UNCHANGED <<opened>>

FindSyms(s, addr) ==
    /\ resolvers[s] # None
    /\ LET out == find_syms(resolvers[s][1], addr) IN
       /\ resolvers' = [resolvers EXCEPT ![s] = Some(out.self)]
       /\ last' = Completed("find_syms", s, addr, <<>>, out)
    /\ UNCHANGED <<opened, caller_rc, caller_elf, built>>

FindAddr(s, name) ==
    /\ resolvers[s] # None
    /\ LET out == find_addr(resolvers[s][1], name, "default") IN
       /\ resolvers' = [resolvers EXCEPT ![s] = Some(out.self)]
       /\ last' = Completed("find_addr", s, 0, <<name>>, out)
    /\ UNCHANGED <<opened, caller_rc, caller_elf, built>>

FindLineInfo(s, addr) ==
    /\ resolvers[s] # None
    /\ LET out == find_line_info(resolvers[s][1], addr) IN
       /\ resolvers' = [resolvers EXCEPT ![s] = Some(out.self)]
       /\ last' = Completed("find_line_info", s, addr, <<>>, out)
    /\ UNCHANGED <<opened, caller_rc, caller_elf, built>>

AddrFileOff(s, addr) ==
    /\ resolvers[s] # None
    /\ LET out == addr_file_off(resolvers[s][1], addr) IN
       /\ resolvers' = [resolvers EXCEPT ![s] = Some(out.self)]
       /\ last' = Completed("addr_file_off", s, addr, <<>>, out)
    /\ UNCHANGED <<opened, caller_rc, caller_elf, built>>

\* format!("{:?}", resolver)
Fmt(s) ==
    /\ resolvers[s] # None
    /\ LET out == fmt(resolvers[s][1]) IN
       /\ resolvers' = [resolvers EXCEPT ![s] = Some(out.self)]
       /\ last' = Completed("fmt", s, 0, <<>>, out)
    /\ UNCHANGED <<opened, caller_rc, caller_elf, built>>

\* symbolizer.symbolize(&Source::Kernel(src), addrs): the resolver lives for
\* the call only.
Symbolize(src, addrs) ==
    /\ last' = [op |-> "symbolize", self |-> 0, addr |-> 0, arg |-> <<src, addrs>>,
                ret |-> symbolize(src, addrs), calls |-> <<>>]
    /\ UNCHANGED <<opened, caller_rc, caller_elf, resolvers, built>>

SymNames == {"do_sys_open", "nosuch"}

Next ==
    \/ \E k \in KSymIds : OpenKSym(k)
    \/ \E e \in ElfIds : OpenElf(e)
    \/ \E k \in KSymIds : CloneRc(k)
    \/ \E s \in Slots, k \in {None} \cup {Some(x) : x \in KSymIds},
          e \in {None} \cup {Some(x) : x \in ElfIds} : New(s, k, e)
    \/ \E s \in Slots, addr \in Addr : FindSyms(s, addr)
    \/ \E s \in Slots, name \in SymNames : FindAddr(s, name)
    \/ \E s \in Slots, addr \in Addr : FindLineInfo(s, addr)
    \/ \E s \in Slots, addr \in Addr : AddrFileOff(s, addr)
    \/ \E s \in Slots : Fmt(s)

Spec == Init /\ [][Next]_vars

\* Symbolization on its own: every Kernel source with every address batch.
NextSymbolize ==
    \E src \in KernelSources, addrs \in Batches : Symbolize(src, addrs)

SpecSymbolize == Init /\ [][NextSymbolize]_vars

\* ================================================================ claims
\* The configuration KernelResolver::new returned for the slot of the last
\* call, and what each child answers when asked directly.
LastBuilt == built[last.self][1]
TableAlone(r, addr) == KSymFindSyms(r.ksym_resolver[1], addr)
ElfSymsAlone(r, addr) == ElfFindSyms(r.elf_resolver[1], addr)
ElfLineAlone(r, addr) == ElfFindLineInfo(r.elf_resolver[1], addr)
Both(r) == r.ksym_resolver # None /\ r.elf_resolver # None

\* C1: KernelResolver::new returns the NotFound error, and produces no
\* resolver, exactly when both children are absent; in every other
\* configuration it succeeds and the resolver holds exactly the children given.
C1_NewFailsIffBothAbsent ==
    last.op = "new" =>
        LET k == last.arg[1]
            e == last.arg[2]
        IN  /\ IsErr(last.ret) <=> (k = None /\ e = None)
            /\ IsErr(last.ret) =>
                   /\ last.ret.err.kind = "NotFound"
                   /\ resolvers[last.self] = None
            /\ ~IsErr(last.ret) =>
                   /\ IsOk(last.ret)
                   /\ last.ret.ok.ksym_resolver = k
                   /\ last.ret.ok.elf_resolver = e
                   /\ resolvers[last.self] = Some(last.ret.ok)

\* A construction without children has just failed, next to a resolver
\* built earlier from both children.
C1_Witness ==
    /\ last.op = "new"
    /\ last.arg = <<None, None>>
    /\ IsErr(last.ret)
    /\ \E s \in Slots : built[s] # None /\ Both(built[s][1])

\* C2: find_syms returns exactly the table resolver's answer whenever the
\* table resolver is present (with or without an ELF resolver, an empty
\* answer included) and never consults the ELF resolver then; it returns the
\* ELF resolver's answer only when the table resolver is absent.
C2_FindSymsTableFirst ==
    last.op = "find_syms" =>
        IF LastBuilt.ksym_resolver # None
        THEN /\ last.ret = TableAlone(LastBuilt, last.addr)
             /\ \A i \in 1..Len(last.calls) : last.calls[i].child \notin ElfIds
        ELSE /\ LastBuilt.elf_resolver # None
             /\ last.ret = ElfSymsAlone(LastBuilt, last.addr)

\* Both children are present, the table has nothing for the address and the
\* ELF resolver has a symbol for it: the answer is the table's empty one.
C2_Witness ==
    /\ last.op = "find_syms"
    /\ Both(LastBuilt)
    /\ last.ret = Ok(<<>>)
    /\ ElfSymsAlone(LastBuilt, last.addr) = Ok(<< <<"_stext", 0>> >>)

\* C3: find_line_info returns exactly the ELF resolver's answer whenever an
\* ELF resolver is present, also next to a table resolver, and Ok(None),
\* never an error, when there is none.
C3_FindLineInfoFromElf ==
    last.op = "find_line_info" =>
        IF LastBuilt.elf_resolver # None
        THEN last.ret = ElfLineAlone(LastBuilt, last.addr)
        ELSE last.ret = Ok(None)

\* Both children are present and the ELF resolver's line record comes back.
C3_Witness ==
    /\ last.op = "find_line_info"
    /\ Both(LastBuilt)
    /\ last.ret = Ok(Some([path |-> "fs/open.c", line |-> 42, column |-> 3]))

\* C4: find_addr always returns a successful empty sequence and
\* addr_file_off always returns None, in every configuration, and neither
\* consults a child.
C4_UnsupportedQueriesAreEmpty ==
    /\ last.op = "find_addr" => last.ret = Ok(<<>>) /\ last.calls = <<>>
    /\ last.op = "addr_file_off" => last.ret = None /\ last.calls = <<>>

\* find_addr was asked for a name both children know.
C4_Witness ==
    /\ last.op = "find_addr"
    /\ last.arg = <<"do_sys_open">>
    /\ LastBuilt = KernelResolver(Some("K1"), Some("E1"))

\* The child a query delegates to, and that child's own answer.
Delegated(op, r) ==
    IF op = "find_syms"
    THEN (IF r.ksym_resolver # None THEN r.ksym_resolver ELSE r.elf_resolver)
    ELSE IF op = "find_line_info" THEN r.elf_resolver
    ELSE None
ChildAnswer(op, r, addr) ==
    IF op = "find_line_info" THEN ElfLineAlone(r, addr)
    ELSE IF r.ksym_resolver # None THEN TableAlone(r, addr)
    ELSE ElfSymsAlone(r, addr)

\* C5: when the child that find_syms or find_line_info delegates to returns
\* an error, the composite returns that same error; and the composite
\* returns an error (and never panics) only when that child returned one;
\* find_addr, which delegates to no child, returns none.
C5_ErrorsPropagateUnchanged ==
    last.op \in {"find_syms", "find_line_info", "find_addr"} =>
        /\ ~IsPanic(last.ret)
        /\ IF Delegated(last.op, LastBuilt) = None
           THEN IsOk(last.ret)
           ELSE LET child == ChildAnswer(last.op, LastBuilt, last.addr) IN
                /\ IsErr(child) => last.ret = child
                /\ IsErr(last.ret) => last.ret = child

\* The table resolver failed while a healthy ELF resolver was at hand: the
\* table's error is the answer.
C5_Witness ==
    /\ last.op = "find_syms"
    /\ LastBuilt = KernelResolver(Some("K2"), Some("E1"))
    /\ last.ret = Err(KSymError)
    /\ IsOk(ElfSymsAlone(LastBuilt, last.addr))

\* C6: a successful symbolize returns one inner sequence per input address,
\* in input order: the lengths agree (empty batch and addresses without a
\* match included) and the results at position i belong to address i.
C6_SymbolizeOnePerAddress ==
    (last.op = "symbolize" /\ IsOk(last.ret)) =>
        LET addrs == last.arg[2]
            out == last.ret.ok
        IN  /\ Len(out) = Len(addrs)
            /\ \A i \in 1..Len(out) : \A j \in 1..Len(out[i]) :
                   out[i][j].addr <= addrs[i]

\* A two-address batch whose first address has no match and whose second
\* has one.
C6_Witness ==
    /\ last.op = "symbolize"
    /\ IsOk(last.ret)
    /\ Len(last.arg[2]) = 2
    /\ last.ret.ok[1] = <<>>
    /\ last.ret.ok[2] # <<>>

\* C7 as stated: each child a composite holds, table or ELF, is held by
\* that composite alone.
C7_BothChildrenExclusive ==
    \A s \in Slots : resolvers[s] # None =>
        LET r == resolvers[s][1] IN
        /\ r.ksym_resolver # None =>
               /\ KSymHolders(r.ksym_resolver[1]) = {s}
               /\ caller_rc[r.ksym_resolver[1]] = 0
        /\ r.elf_resolver # None =>
               /\ ElfHolders(r.elf_resolver[1]) = {s}
               /\ r.elf_resolver[1] \notin caller_elf

\* C7 amended: the ELF resolver a composite holds is held by that composite
\* alone, neither by another composite nor outside; the table resolver is
\* held through an Rc handle, which does not exclude other holders.
C7_ElfChildExclusive ==
    \A s \in Slots : resolvers[s] # None =>
        LET r == resolvers[s][1] IN
        r.elf_resolver # None =>
            /\ ElfHolders(r.elf_resolver[1]) = {s}
            /\ r.elf_resolver[1] \notin caller_elf

\* Two composites, each with its own ELF resolver, share one table resolver.
C7_Witness ==
    /\ \A s \in Slots : resolvers[s] # None /\ Both(resolvers[s][1])
    /\ resolvers[1][1].ksym_resolver = resolvers[2][1].ksym_resolver
    /\ resolvers[1][1].elf_resolver # resolvers[2][1].elf_resolver

\* C9: the Debug output is "KernelResolver", a space, the table's file name
\* (nothing when there is no table resolver), a space, the ELF file name
\* (nothing when there is no ELF resolver).
C9_DebugShowsFileNames ==
    last.op = "fmt" =>
        LET out == last.ret
            tn == IF LastBuilt.ksym_resolver = None THEN <<>>
                  ELSE KSymFileName(LastBuilt.ksym_resolver[1])
            en == IF LastBuilt.elf_resolver = None THEN <<>>
                  ELSE ElfFileName(LastBuilt.elf_resolver[1])
            n == Len(KernelResolverLit)
        IN  /\ Len(out) = n + 1 + Len(tn) + 1 + Len(en)
            /\ SubSeq(out, 1, n) = KernelResolverLit
            /\ out[n + 1] = " "
            /\ SubSeq(out, n + 2, n + 1 + Len(tn)) = tn
            /\ out[n + 2 + Len(tn)] = " "
            /\ SubSeq(out, n + 3 + Len(tn), Len(out)) = en

\* A table-only resolver printed "KernelResolver /k1 ".
C9_Witness ==
    /\ last.op = "fmt"
    /\ LastBuilt = KernelResolver(Some("K1"), None)
    /\ last.ret = <<"K", "e", "r", "n", "e", "l", "R", "e", "s", "o", "l", "v",
                    "e", "r", " ", "/", "k", "1", " ">>

\* C10: every constructed resolver keeps, through any sequence of queries,
\* the children it was built with, at least one of them present; find_syms
\* therefore never unwraps an absent ELF resolver.
C10_ConfigurationFixedNoPanic ==
    /\ \A s \in Slots :
           /\ resolvers[s] = built[s]
           /\ built[s] # None =>
                  (built[s][1].ksym_resolver # None \/ built[s][1].elf_resolver # None)
    /\ last.op = "find_syms" => ~IsPanic(last.ret)

\* find_syms on an ELF-only resolver took the unwrap branch and returned the
\* ELF resolver's two overlapping symbols.
C10_Witness ==
    /\ last.op = "find_syms"
    /\ LastBuilt = KernelResolver(None, Some("E1"))
    /\ last.ret = Ok(<< <<"do_sys_open", 1>>, <<"open_inl", 2>> >>)

====
